---- MODULE Spec2Model ----
(***************************************************************************)
(* Model of src/src/throttle.rs: the ThrottleWaiter (fixed delay), the     *)
(* ExponentialBackoffWaiter (stateful delay) and the ThrottleTimerFuture   *)
(* (thread-backed timer polled by an executor).                            *)
(*                                                                         *)
(* Durations are whole nanosecond counts.  An Option<T> is a sequence of   *)
(* length at most one: <<>> is None, <<v>> is Some(v).  An f32 is an exact *)
(* dyadic rational [n |-> numerator, d |-> power of two].                  *)
(***************************************************************************)
EXTENDS Integers, Sequences, FiniteSets, TLC

VARIABLES
    cfg,        \* ghost: which Waiter the program holds and its constructor arguments
    throttle,   \* ThrottleWaiter.throttle
    next,       \* ExponentialBackoffWaiter.next (Option of the RefCell content)
    initial,    \* ExponentialBackoffWaiter.initial
    multiplier, \* ExponentialBackoffWaiter.multiplier (f32)
    cap,        \* ExponentialBackoffWaiter.cap
    clone,      \* Option: a clone of the ExponentialBackoffWaiter, with its own fields
    pc,         \* the caller: "idle", "sleeping" (inside a blocking wait), "awaiting" (holds a future)
    sleeping,   \* Option: the duration the caller thread is blocked for in std::thread::sleep
    fut,        \* the future the caller holds: "none", "ready_err", "timer"
    lastOp,     \* ghost: the Waiter method called last
    lastResult, \* ghost: the value returned by the latest call (or awaited future) that returned one
    resetBy,    \* ghost: which of "start"/"restart" set the backoff's current delay last
    delays,     \* ghost: the delays handed out by the backoff since the last start/restart
    kinds,      \* ghost: which of "wait"/"async_wait" produced those delays
    prev,       \* ghost: Option, the backoff's current delay read by the wait/async_wait in progress
    completed,  \* SharedState.completed
    waker,      \* SharedState.waker (Option of a wake handle)
    lock,       \* the holder of the shared state's lock: "free", "thread", "task"
    tpc,        \* the timer thread: "none", "sleep", "acquire", "locked", "done"
    duration,   \* Option: the duration the timer thread sleeps for
    ppc,        \* the poll in progress: "idle", "locked"
    pollCx,     \* Option: the wake handle of the context of the latest poll
    regs,       \* ghost: the handles of the not-ready polls of this timer, in order
    lastPoll,   \* ghost: result of the latest finished poll: "none", "Pending", "Ready"
    readyCount, \* ghost: the number of polls of this timer that reported ready
    wakes,      \* ghost: the handles woken by the timer thread, in order
    runnable,   \* executor: the task is scheduled to be polled
    spurious    \* ghost: polls made without a preceding wake

waiterVars == <<cfg, throttle, next, initial, multiplier, cap, clone>>
callerVars == <<pc, sleeping, fut, lastOp, lastResult, resetBy, delays, kinds, prev>>
sharedVars == <<completed, waker, lock>>
threadVars == <<tpc, duration, wakes>>
pollVars == <<ppc, pollCx, regs, lastPoll, readyCount, runnable, spurious>>
vars == <<waiterVars, callerVars, sharedVars, threadVars, pollVars>>

(***************************************************************************)
(* Bounds of the model.                                                    *)
(***************************************************************************)
\* wait/async_wait calls on the backoff between two start/restart calls
MaxCalls == 6
\* polls the executor makes without having been woken
MaxSpurious == 1
\* distinct wake handles (contexts the awaiting task can be polled from)
MaxHandles == 2

Handles == 1..MaxHandles

None == <<>>
Some(v) == <<v>>
IsSome(o) == Len(o) = 1
Get(o) == o[1]

Pow2(n) == 2 ^ n

Pow(b, n) == b ^ n

Min(a, b) == IF a < b THEN a ELSE b

(***************************************************************************)
(* f32 arithmetic: 24 significant bits, round to nearest, ties to even.    *)
(***************************************************************************)
MantBits == 24

\* the quotient n / d (n >= 0, d > 0) rounded to the nearest integer, ties to even
RoundHalfEven(n, d) ==
    LET q == n \div d
        r == n % d
    IN  IF 2 * r > d \/ (2 * r = d /\ q % 2 = 1) THEN q + 1 ELSE q

\* the rational n / d (d a power of two) in lowest terms
RECURSIVE Reduce(_, _)
Reduce(n, d) ==
    IF d > 1 /\ n % 2 = 0 THEN Reduce(n \div 2, d \div 2) ELSE [n |-> n, d |-> d]

\* the number of low bits an integer n >= 2^24 loses when it is cut to 24
\* significant bits (the model's integers are below 2^31)
ExcessBits(n) ==
    CHOOSE e \in 1..(31 - MantBits) :
        n \div Pow2(e) < Pow2(MantBits) /\ n \div Pow2(e - 1) >= Pow2(MantBits)

\* the rational n / d >= 0 in lowest terms rounded to the nearest f32: the
\* numerator is rounded to 24 significant bits
F32RoundReduced(n, d) ==
    IF n < Pow2(MantBits)
    THEN [n |-> n, d |-> d]
    ELSE LET e == ExcessBits(n)
         IN  Reduce(RoundHalfEven(n, Pow2(e)) * Pow2(e), d)

\* the rational n / d >= 0 rounded to the nearest f32
F32Round(n, d) ==
    LET r == Reduce(n, d)
    IN  F32RoundReduced(r.n, r.d)

\* `x as f32` for an unsigned integer x
U128AsF32(x) == F32Round(x, 1)

\* `a * b` in f32, a >= 0
F32Mul(a, b) ==
    IF b.n >= 0
    THEN F32Round(a.n * b.n, a.d * b.d)
    ELSE LET m == F32Round(a.n * (0 - b.n), a.d * b.d)
         IN  [n |-> 0 - m.n, d |-> m.d]

\* `f as u64`: truncation toward zero, negative values saturate to 0
\* (the saturation at 2^64 - 1 is beyond the model's durations)
F32AsU64(f) == IF f.n <= 0 THEN 0 ELSE f.n \div f.d

(***************************************************************************)
(* The constructor arguments the model draws from.                         *)
(***************************************************************************)
\* k milliseconds in nanoseconds
Ms(k) == k * 1000000

F(n, d) == [n |-> n, d |-> d]

\* the program holds one Waiter: an ExponentialBackoffWaiter::new(i, m, c) ...
Backoff(i, m, c) ==
    [waiter |-> "backoff", initial |-> i, multiplier |-> m, cap |-> c, throttle |-> 0]

\* ... or a ThrottleWaiter::new(t)
Throttle(t) ==
    [waiter |-> "throttle", initial |-> 0, multiplier |-> F(1, 1), cap |-> 0, throttle |-> t]

Configs ==
    { Backoff(Ms(100), F(2, 1), Ms(1000)),
      Backoff(3, F(3, 2), 10),
      Backoff(7, F(3, 1), 1000),
      Backoff(2, F(1, 1), 7),
      Backoff(1, F(3, 2), 10),
      Backoff(8, F(1, 2), 5),
      Backoff(6, F(1, 2), 9),
      Backoff(16777217, F(1, 1), Ms(1000)),
      Backoff(0, F(2, 1), 5),
      Backoff(5, F(2, 1), 0),
      Backoff(1, F(0 - 1, 1), 5),
      Backoff(16777217, F(2, 1), Ms(1000)),
      Backoff(5592409, F(3, 2), Ms(1000)),
      Throttle(0),
      Throttle(7),
      Throttle(Ms(50)) }

(***************************************************************************)
(* State after ThrottleWaiter::new and ExponentialBackoffWaiter::new.      *)
(***************************************************************************)
\* the configurations with which the program also takes a clone of its waiter
CloneConfigs == {Backoff(3, F(3, 2), 10)}

Init ==
    /\ cfg \in Configs
    /\ throttle = cfg.throttle
    /\ next = None
    /\ initial = cfg.initial
    /\ multiplier = cfg.multiplier
    /\ cap = cfg.cap
    /\ clone = None
    /\ pc = "idle"
    /\ sleeping = None
    /\ fut = "none"
    /\ lastOp = "none"
    /\ lastResult = "none"
    /\ resetBy = "none"
    /\ delays = <<>>
    /\ kinds = {}
    /\ prev = None
    /\ completed = FALSE
    /\ waker = None
    /\ lock = "free"
    /\ tpc = "none"
    /\ duration = None
    /\ ppc = "idle"
    /\ pollCx = None
    /\ regs = <<>>
    /\ lastPoll = "none"
    /\ readyCount = 0
    /\ wakes = <<>>
    /\ runnable = FALSE
    /\ spurious = 0

timerVars == <<sharedVars, threadVars, pollVars>>

(***************************************************************************)
(* ThrottleTimerFuture::new(d): fresh shared state and a spawned thread    *)
(* that starts in sleep(d).  The executor polls a new future once.         *)
(***************************************************************************)
TimerNew(d) ==
    /\ completed' = FALSE
    /\ waker' = None
    /\ lock' = "free"
    /\ tpc' = "sleep"
    /\ duration' = Some(d)
    /\ wakes' = <<>>
    /\ ppc' = "idle"
    /\ pollCx' = None
    /\ regs' = <<>>
    /\ lastPoll' = "none"
    /\ readyCount' = 0
    /\ runnable' = TRUE
    /\ spurious' = 0

\* the future is dropped: once the thread has exited too, the shared state
\* is freed; while the thread still runs it keeps the shared state alive
TimerDrop ==
    IF tpc = "done"
    THEN /\ completed' = FALSE
         /\ waker' = None
         /\ lock' = "free"
         /\ tpc' = "none"
         /\ duration' = None
         /\ wakes' = <<>>
         /\ ppc' = "idle"
         /\ pollCx' = None
         /\ regs' = <<>>
         /\ lastPoll' = "none"
         /\ readyCount' = 0
         /\ runnable' = FALSE
         /\ spurious' = 0
    ELSE UNCHANGED timerVars

\* at most one timer thread is alive at a time
NoLiveTimer == tpc \in {"none", "done"}

(***************************************************************************)
(* ExponentialBackoffWaiter                                                *)
(***************************************************************************)
\* wait without the `if next_duration > self.cap` clamp
WaitNextDurationNoClamp(current, m, c) ==
    F32AsU64(F32Mul(U128AsF32(current), m))

\* wait that multiplies the initial delay instead of the current one
WaitNextDurationFromInitial(current, m, c) ==
    LET next_duration == F32AsU64(F32Mul(U128AsF32(initial), m))
    IN  IF next_duration > c THEN c ELSE next_duration

\* wait that rounds the product to the nearest nanosecond
WaitNextDurationRounded(current, m, c) ==
    LET product == F32Mul(U128AsF32(current), m)
        next_duration == IF product.n <= 0 THEN 0 ELSE RoundHalfEven(product.n, product.d)
    IN  IF next_duration > c THEN c ELSE next_duration

\* lines 143-149 of wait: the delay that follows `current`
WaitNextDuration(current, m, c) ==
    LET current_nsec == U128AsF32(current)
        next_duration == F32AsU64(F32Mul(current_nsec, m))
    IN  IF next_duration > c THEN c ELSE next_duration

\* async_wait that clamps but forgets the multiplication
AsyncWaitNextDurationNoMul(current, m, c) ==
    IF current > c THEN c ELSE current

\* lines 167-173 of async_wait: the delay that follows `current`
AsyncWaitNextDuration(current, m, c) ==
    LET current_nsec == U128AsF32(current)
        next_duration == F32AsU64(F32Mul(current_nsec, m))
    IN  IF next_duration > c THEN c ELSE next_duration

\* the value start stores
StartValue(i, c) == i

\* restart that resets to the cap instead of the initial delay
RestartValueCap(i, c) == c

\* the value restart stores
RestartValue(i, c) == i

\* start that keeps the state of a waiter that is already started
StartOnce ==
    /\ cfg.waiter = "backoff"
    /\ pc = "idle"
    /\ next' = IF IsSome(next) THEN next ELSE Some(initial)
    /\ lastOp' = "start"
    /\ resetBy' = "start"
    /\ delays' = <<>>
    /\ kinds' = {}
    /\ UNCHANGED <<cfg, throttle, initial, multiplier, cap, clone, pc, sleeping, fut, lastResult, prev, timerVars>>

Start ==
    /\ cfg.waiter = "backoff"
    /\ pc = "idle"
    /\ next' = Some(StartValue(initial, cap))
    /\ lastOp' = "start"
    /\ resetBy' = "start"
    /\ delays' = <<>>
    /\ kinds' = {}
    /\ UNCHANGED <<cfg, throttle, initial, multiplier, cap, clone, pc, sleeping, fut, lastResult, prev, timerVars>>

\* restart that initialises a waiter that was never started, as start does
RestartUnchecked ==
    /\ cfg.waiter = "backoff"
    /\ pc = "idle"
    /\ lastOp' = "restart"
    /\ next' = Some(initial)
    /\ lastResult' = "Ok"
    /\ resetBy' = "restart"
    /\ delays' = <<>>
    /\ kinds' = {}
    /\ UNCHANGED <<cfg, throttle, initial, multiplier, cap, clone, pc, sleeping, fut, prev, timerVars>>

Restart ==
    /\ cfg.waiter = "backoff"
    /\ pc = "idle"
    /\ lastOp' = "restart"
    /\ IF IsSome(next)
       THEN /\ next' = Some(RestartValue(initial, cap))
            /\ lastResult' = "Ok"
            /\ resetBy' = "restart"
            /\ delays' = <<>>
            /\ kinds' = {}
       ELSE /\ lastResult' = "NotStarted"
            /\ UNCHANGED <<next, resetBy, delays, kinds>>
    /\ UNCHANGED <<cfg, throttle, initial, multiplier, cap, clone, pc, sleeping, fut, prev, timerVars>>

\* wait that sleeps first and would store the next delay only afterwards
WaitSleepFirst ==
    /\ cfg.waiter = "backoff"
    /\ pc = "idle"
    /\ lastOp' = "wait"
    /\ IF IsSome(next)
       THEN /\ Len(delays) < MaxCalls
            /\ sleeping' = next
            /\ prev' = next
            /\ delays' = Append(delays, Get(next))
            /\ kinds' = kinds \cup {"wait"}
            /\ pc' = "sleeping"
            /\ UNCHANGED <<next, lastResult>>
       ELSE /\ lastResult' = "NotStarted"
            /\ UNCHANGED <<next, sleeping, prev, delays, kinds, pc>>
    /\ UNCHANGED <<cfg, throttle, initial, multiplier, cap, clone, fut, resetBy, timerVars>>

\* wait up to the point where the calling thread is inside std::thread::sleep
Wait ==
    /\ cfg.waiter = "backoff"
    /\ pc = "idle"
    /\ lastOp' = "wait"
    /\ IF IsSome(next)
       THEN /\ Len(delays) < MaxCalls
            /\ LET current == Get(next)
               IN  /\ next' = Some(WaitNextDuration(current, multiplier, cap))
                   /\ sleeping' = Some(current)
                   /\ prev' = Some(current)
                   /\ delays' = Append(delays, current)
            /\ kinds' = kinds \cup {"wait"}
            /\ pc' = "sleeping"
            /\ UNCHANGED lastResult
       ELSE /\ lastResult' = "NotStarted"
            /\ UNCHANGED <<next, sleeping, prev, delays, kinds, pc>>
    /\ UNCHANGED <<cfg, throttle, initial, multiplier, cap, clone, fut, resetBy, timerVars>>

\* the sleep of wait is over and wait returns Ok(())
\* the return of a wait that discards the waiter's state
WaitWakeClears ==
    /\ cfg.waiter = "backoff"
    /\ pc = "sleeping"
    /\ lastOp = "wait"
    /\ pc' = "idle"
    /\ sleeping' = None
    /\ prev' = None
    /\ lastResult' = "Ok"
    /\ next' = None
    /\ UNCHANGED <<cfg, throttle, initial, multiplier, cap, clone, fut, lastOp, resetBy, delays, kinds, timerVars>>

WaitWake ==
    /\ cfg.waiter = "backoff"
    /\ pc = "sleeping"
    /\ lastOp = "wait"
    /\ pc' = "idle"
    /\ sleeping' = None
    /\ prev' = None
    /\ lastResult' = "Ok"
    /\ UNCHANGED <<waiterVars, fut, lastOp, resetBy, delays, kinds, timerVars>>

\* async_wait that treats a waiter that was never started as starting now
AsyncWaitStarts ==
    /\ cfg.waiter = "backoff"
    /\ pc = "idle"
    /\ lastOp' = "async_wait"
    /\ pc' = "awaiting"
    /\ Len(delays) < MaxCalls
    /\ NoLiveTimer
    /\ LET current == IF IsSome(next) THEN Get(next) ELSE initial
       IN  /\ next' = Some(AsyncWaitNextDuration(current, multiplier, cap))
           /\ prev' = Some(current)
           /\ delays' = Append(delays, current)
           /\ TimerNew(current)
    /\ kinds' = kinds \cup {"async_wait"}
    /\ fut' = "timer"
    /\ UNCHANGED <<cfg, throttle, initial, multiplier, cap, clone, sleeping, lastResult, resetBy>>

AsyncWait ==
    /\ cfg.waiter = "backoff"
    /\ pc = "idle"
    /\ lastOp' = "async_wait"
    /\ pc' = "awaiting"
    /\ IF IsSome(next)
       THEN /\ Len(delays) < MaxCalls
            /\ NoLiveTimer
            /\ LET current == Get(next)
               IN  /\ next' = Some(AsyncWaitNextDuration(current, multiplier, cap))
                   /\ prev' = Some(current)
                   /\ delays' = Append(delays, current)
                   /\ TimerNew(current)
            /\ kinds' = kinds \cup {"async_wait"}
            /\ fut' = "timer"
       ELSE /\ fut' = "ready_err"
            /\ UNCHANGED <<next, prev, delays, kinds, timerVars>>
    /\ UNCHANGED <<cfg, throttle, initial, multiplier, cap, clone, sleeping, lastResult, resetBy>>

(***************************************************************************)
(* #[derive(Clone)] on ExponentialBackoffWaiter (lines 112-118) and the    *)
(* methods called on the clone; a call on the clone runs to its return     *)
(***************************************************************************)
\* a clone that is made with new(): it is not started
CloneOfFresh(n, i, m, c) == [next |-> None, initial |-> i, multiplier |-> m, cap |-> c]

\* the derived clone copies every field; the RefCell is cloned by value
CloneOf(n, i, m, c) == [next |-> n, initial |-> i, multiplier |-> m, cap |-> c]

\* let clone = waiter.clone()
Clone ==
    /\ cfg \in CloneConfigs
    /\ pc = "idle"
    /\ clone' = Some(CloneOf(next, initial, multiplier, cap))
    /\ UNCHANGED <<cfg, throttle, next, initial, multiplier, cap, callerVars, timerVars>>

\* clone.start()
CloneStart ==
    /\ IsSome(clone)
    /\ pc = "idle"
    /\ LET w == Get(clone)
       IN  clone' = Some([w EXCEPT !.next = Some(StartValue(w.initial, w.cap))])
    /\ UNCHANGED <<cfg, throttle, next, initial, multiplier, cap, callerVars, timerVars>>

\* clone.restart(): Err(NotStarted) leaves the clone as it is
CloneRestart ==
    /\ IsSome(clone)
    /\ pc = "idle"
    /\ LET w == Get(clone)
       IN  clone' = IF IsSome(w.next)
                    THEN Some([w EXCEPT !.next = Some(RestartValue(w.initial, w.cap))])
                    ELSE clone
    /\ UNCHANGED <<cfg, throttle, next, initial, multiplier, cap, callerVars, timerVars>>

\* clone.wait(): the next delay is stored, then the caller sleeps and the
\* call returns; Err(NotStarted) leaves the clone as it is
CloneWait ==
    /\ IsSome(clone)
    /\ pc = "idle"
    /\ LET w == Get(clone)
       IN  clone' = IF IsSome(w.next)
                    THEN Some([w EXCEPT !.next =
                                 Some(WaitNextDuration(Get(w.next), w.multiplier, w.cap))])
                    ELSE clone
    /\ UNCHANGED <<cfg, throttle, next, initial, multiplier, cap, callerVars, timerVars>>

(***************************************************************************)
(* ThrottleWaiter                                                          *)
(***************************************************************************)
\* Waiter::start, default method: nothing to initialise
ThrottleStart ==
    /\ cfg.waiter = "throttle"
    /\ pc = "idle"
    /\ lastOp' = "t_start"
    /\ UNCHANGED <<waiterVars, pc, sleeping, fut, lastResult, resetBy, delays, kinds, prev, timerVars>>

\* Waiter::restart, default method: Ok(())
ThrottleRestart ==
    /\ cfg.waiter = "throttle"
    /\ pc = "idle"
    /\ lastOp' = "t_restart"
    /\ lastResult' = "Ok"
    /\ UNCHANGED <<waiterVars, pc, sleeping, fut, resetBy, delays, kinds, prev, timerVars>>

\* a throttle that sleeps twice
ThrottleWaitDurationTwice(t) == t + t

\* the duration ThrottleWaiter::wait sleeps for
ThrottleWaitDuration(t) == t

\* the duration ThrottleWaiter::async_wait gives the timer
ThrottleAsyncWaitDuration(t) == t

ThrottleWait ==
    /\ cfg.waiter = "throttle"
    /\ pc = "idle"
    /\ lastOp' = "t_wait"
    /\ sleeping' = Some(ThrottleWaitDuration(throttle))
    /\ pc' = "sleeping"
    /\ UNCHANGED <<waiterVars, fut, lastResult, resetBy, delays, kinds, prev, timerVars>>

ThrottleWaitWake ==
    /\ cfg.waiter = "throttle"
    /\ pc = "sleeping"
    /\ lastOp = "t_wait"
    /\ pc' = "idle"
    /\ sleeping' = None
    /\ lastResult' = "Ok"
    /\ UNCHANGED <<waiterVars, fut, lastOp, resetBy, delays, kinds, prev, timerVars>>

ThrottleAsyncWait ==
    /\ cfg.waiter = "throttle"
    /\ pc = "idle"
    /\ NoLiveTimer
    /\ lastOp' = "t_async_wait"
    /\ pc' = "awaiting"
    /\ fut' = "timer"
    /\ TimerNew(ThrottleAsyncWaitDuration(throttle))
    /\ UNCHANGED <<waiterVars, sleeping, lastResult, resetBy, delays, kinds, prev>>

(***************************************************************************)
(* ThrottleTimerFuture: the spawned thread (lines 74-83)                   *)
(***************************************************************************)
\* sleep(duration) returns
ThreadElapse ==
    /\ tpc = "sleep"
    /\ tpc' = "acquire"
    /\ UNCHANGED <<waiterVars, callerVars, sharedVars, duration, wakes, pollVars>>

\* a thread that takes the lock only once a poll has stored a waker
ThreadLockOncePolled ==
    /\ tpc = "acquire"
    /\ lock = "free"
    /\ IsSome(waker)
    /\ lock' = "thread"
    /\ tpc' = "locked"
    /\ UNCHANGED <<waiterVars, callerVars, completed, waker, duration, wakes, pollVars>>

\* thread_shared_state.lock()
ThreadLock ==
    /\ tpc = "acquire"
    /\ lock = "free"
    /\ lock' = "thread"
    /\ tpc' = "locked"
    /\ UNCHANGED <<waiterVars, callerVars, completed, waker, duration, wakes, pollVars>>

\* the task the executor re-polls when handle h is woken: the one whose
\* current context is h
Wakes(h) == pc = "awaiting" /\ fut = "timer" /\ pollCx = Some(h)

\* a thread that sets completed but never invokes the waker
ThreadCompleteNoWake ==
    /\ tpc = "locked"
    /\ completed' = TRUE
    /\ waker' = None
    /\ lock' = "free"
    /\ tpc' = "done"
    /\ UNCHANGED <<waiterVars, callerVars, duration, wakes, pollVars>>

\* a thread that wakes every handle a poll has stored, not only the last
ThreadCompleteWakeEach ==
    /\ tpc = "locked"
    /\ completed' = TRUE
    /\ wakes' = wakes \o regs
    /\ runnable' = (runnable \/ \E k \in DOMAIN regs : Wakes(regs[k]))
    /\ waker' = None
    /\ lock' = "free"
    /\ tpc' = "done"
    /\ UNCHANGED <<waiterVars, callerVars, duration,
                   ppc, pollCx, regs, lastPoll, readyCount, spurious>>

\* under the lock: shared_state.completed = true, then
\* if let Some(waker) = shared_state.waker.take() { waker.wake() }; the guard
\* is dropped at the end of the closure and the thread exits
ThreadComplete ==
    /\ tpc = "locked"
    /\ completed' = TRUE
    /\ IF IsSome(waker)
       THEN /\ wakes' = Append(wakes, Get(waker))
            /\ runnable' = (runnable \/ Wakes(Get(waker)))
       ELSE UNCHANGED <<wakes, runnable>>
    /\ waker' = None
    /\ lock' = "free"
    /\ tpc' = "done"
    /\ UNCHANGED <<waiterVars, callerVars, duration,
                   ppc, pollCx, regs, lastPoll, readyCount, spurious>>

(***************************************************************************)
(* ThrottleTimerFuture::poll (lines 39-60), called by the executor with    *)
(* the context of wake handle h                                            *)
(***************************************************************************)
\* self.shared_state.lock()
PollLock(h) ==
    /\ pc = "awaiting"
    /\ fut = "timer"
    /\ ppc = "idle"
    /\ lock = "free"
    /\ runnable \/ spurious < MaxSpurious
    /\ lock' = "task"
    /\ ppc' = "locked"
    /\ pollCx' = Some(h)
    /\ runnable' = FALSE
    /\ spurious' = IF runnable THEN spurious ELSE spurious + 1
    /\ UNCHANGED <<waiterVars, callerVars, completed, waker, threadVars,
                   regs, lastPoll, readyCount>>

\* poll that reports ready without reading the flag
PollResultAlwaysReady(c) == "Ready"

\* what poll returns
PollResult(c) == IF c THEN "Ready" ELSE "Pending"

\* poll that stores the waker once and keeps it on later polls
PollWakerOnce(w, cx) == IF IsSome(w) THEN w ELSE Some(cx)

\* what poll leaves in shared_state.waker when the timer has not completed
PollWaker(w, cx) == Some(cx)

\* poll that consumes the completion when it reports it
PollCompletedTake(c) == FALSE

\* what poll leaves in shared_state.completed: it only reads the flag
PollCompleted(c) == c

\* the body of poll under the lock; the guard is dropped on return
PollBody ==
    /\ ppc = "locked"
    /\ lastPoll' = PollResult(completed)
    /\ completed' = PollCompleted(completed)
    /\ IF completed
       THEN /\ readyCount' = readyCount + 1
            /\ UNCHANGED <<waker, regs>>
       ELSE /\ waker' = PollWaker(waker, Get(pollCx))
            /\ regs' = Append(regs, Get(pollCx))
            /\ UNCHANGED readyCount
    /\ lock' = "free"
    /\ ppc' = "idle"
    /\ UNCHANGED <<waiterVars, callerVars, threadVars, pollCx, runnable, spurious>>

(***************************************************************************)
(* The caller's await of the future returned by async_wait                 *)
(***************************************************************************)
\* the timer future reported Ready(Ok(())): the await returns Ok(())
AwaitDone ==
    /\ pc = "awaiting"
    /\ fut = "timer"
    /\ ppc = "idle"
    /\ lastPoll = "Ready"
    /\ pc' = "idle"
    /\ fut' = "none"
    /\ prev' = None
    /\ lastResult' = "Ok"
    /\ TimerDrop
    /\ UNCHANGED <<waiterVars, sleeping, lastOp, resetBy, delays, kinds>>

\* std::future::ready(Err(NotStarted)) is ready on its first poll
AwaitReadyErr ==
    /\ pc = "awaiting"
    /\ fut = "ready_err"
    /\ pc' = "idle"
    /\ fut' = "none"
    /\ lastResult' = "NotStarted"
    /\ UNCHANGED <<waiterVars, sleeping, lastOp, resetBy, delays, kinds, prev, timerVars>>

\* the caller drops the future without waiting for it
Abandon ==
    /\ pc = "awaiting"
    /\ ppc = "idle"
    /\ pc' = "idle"
    /\ fut' = "none"
    /\ prev' = None
    /\ lastResult' = "dropped"
    /\ IF fut = "timer" THEN TimerDrop ELSE UNCHANGED timerVars
    /\ UNCHANGED <<waiterVars, sleeping, lastOp, resetBy, delays, kinds>>

Poll == \E h \in Handles : PollLock(h)

Next ==
    \/ Start
    \/ Restart
    \/ Wait
    \/ WaitWake
    \/ AsyncWait
    \/ Clone
    \/ CloneStart
    \/ CloneRestart
    \/ CloneWait
    \/ ThrottleStart
    \/ ThrottleRestart
    \/ ThrottleWait
    \/ ThrottleWaitWake
    \/ ThrottleAsyncWait
    \/ ThreadElapse
    \/ ThreadLock
    \/ ThreadComplete
    \/ Poll
    \/ PollBody
    \/ AwaitDone
    \/ AwaitReadyErr
    \/ Abandon

Spec == Init /\ [][Next]_vars

\* the operating system schedules the timer thread and lets a poll that has
\* begun finish; the executor polls a task that has been woken
Fairness ==
    /\ WF_vars(ThreadElapse)
    /\ WF_vars(ThreadLock)
    /\ WF_vars(ThreadComplete)
    /\ WF_vars(PollBody)
    /\ WF_vars(runnable /\ Poll)

FairSpec == Spec /\ Fairness

(***************************************************************************)
(* Properties                                                              *)
(***************************************************************************)
Last(q) == q[Len(q)]

\* x converts to f32 without rounding
ExactF32(x) == U128AsF32(x) = F(x, 1)

\* min(i * m^(k-1), c) for a whole multiplier m >= 1, as
\* min(min(i * m^(k-2), c) * m, c) to stay within the cap's range
RECURSIVE MinPow(_, _, _, _)
MinPow(i, m, c, k) ==
    IF k = 1
    THEN Min(i, c)
    ELSE CHOOSE r \in {Min(p * m, c) : p \in {MinPow(i, m, c, k - 1)}} : TRUE

\* the multiplier is a whole number >= 1, and initial, cap and the first k
\* products initial * multiplier^j not above cap are exact in f32
WholeAndExact(k) ==
    /\ multiplier.d = 1
    /\ multiplier.n >= 1
    /\ ExactF32(initial)
    /\ ExactF32(cap)
    /\ \A j \in 1..k : \A p \in {MinPow(initial, multiplier.n, cap, j)} : ExactF32(p)

Example == Backoff(Ms(100), F(2, 1), Ms(1000))

ExampleDelay(k) == IF k <= 4 THEN Ms(100) * Pow2(k - 1) ELSE Ms(1000)

\* C1 as stated, on the configurations with a positive multiplier and
\* initial <= cap: the k-th consecutive delay is
\* min(initial * multiplier^(k-1), cap), compared exactly as a fraction over
\* multiplier.d^(k-1).
C1_DelayIsMinOfPowerAndCap ==
    (cfg.waiter = "backoff" /\ multiplier.n > 0 /\ initial <= cap) =>
        \A k \in 1..Len(delays) :
            delays[k] * Pow(multiplier.d, k - 1)
                = Min(initial * Pow(multiplier.n, k - 1), cap * Pow(multiplier.d, k - 1))

\* C1 (amended): the first delay after start is initial, and when the
\* multiplier is a whole number >= 1 and initial, cap and the products up to
\* cap are exact in f32, the k-th consecutive delay (k >= 2) is
\* min(initial * multiplier^(k-1), cap); with (100ms, 2, 1s) the delays are
\* 100, 200, 400, 800, 1000 ms and 1000 ms from then on.
C1_BackoffSequence ==
    cfg.waiter = "backoff" =>
        /\ \A k \in 1..Len(delays) :
               /\ k = 1 => delays[k] = cfg.initial
               /\ (k >= 2 /\ WholeAndExact(k)) =>
                      delays[k] = MinPow(initial, multiplier.n, cap, k)
        /\ cfg = Example => \A k \in 1..Len(delays) : delays[k] = ExampleDelay(k)

\* six consecutive blocking waits of the example have been made: the last
\* sleeps for the capped 1000 ms
C1_Witness ==
    /\ cfg = Example
    /\ kinds = {"wait"}
    /\ pc = "sleeping"
    /\ delays = <<Ms(100), Ms(200), Ms(400), Ms(800), Ms(1000), Ms(1000)>>
    /\ sleeping = Some(Ms(1000))

\* C2: on a backoff that was never started, wait, restart and async_wait give
\* NotStarted as a returned value (the future of async_wait resolves to it),
\* leave next = None and initial, multiplier, cap as constructed; a wait made
\* after such failures and a start delays for exactly initial.
C2_NotStartedIsReturned ==
    /\ [][(~IsSome(next) /\ (Wait \/ Restart \/ AsyncWait \/ AwaitReadyErr)) =>
            /\ next' = None
            /\ initial' = cfg.initial /\ multiplier' = cfg.multiplier /\ cap' = cfg.cap
            /\ (Wait \/ Restart) => (lastResult' = "NotStarted" /\ pc' = "idle")
            /\ AsyncWait => fut' = "ready_err"
            /\ AwaitReadyErr => (lastResult' = "NotStarted" /\ pc' = "idle")]_vars
    /\ [](lastResult = "NotStarted" /\ IsSome(next) =>
            /\ Get(next) = cfg.initial \/ delays = <<cfg.initial>>
            /\ pc = "sleeping" => sleeping = Some(cfg.initial)
            /\ pc = "awaiting" => duration = Some(cfg.initial))

\* a call failed with NotStarted, then start was called, and the wait that
\* followed is sleeping for initial
C2_Witness ==
    /\ lastResult = "NotStarted"
    /\ lastOp = "wait"
    /\ pc = "sleeping"
    /\ cfg.initial > 0
    /\ sleeping = Some(cfg.initial)

\* C3: restart on a started backoff succeeds and stores initial, and the
\* first wait or async_wait after it delays for exactly initial.
C3_RestartResets ==
    /\ [][(Restart /\ IsSome(next)) =>
            (lastResult' = "Ok" /\ next' = Some(cfg.initial) /\ delays' = <<>>)]_vars
    /\ [](resetBy = "restart" /\ delays # <<>> =>
            /\ delays[1] = cfg.initial
            /\ (Len(delays) = 1 /\ pc = "sleeping") => sleeping = Some(cfg.initial)
            /\ (Len(delays) = 1 /\ pc = "awaiting") => duration = Some(cfg.initial))

\* an earlier async_wait was given a delay grown beyond initial (its timer is
\* still around), then restart was called, and the wait after it sleeps for
\* initial
C3_Witness ==
    /\ resetBy = "restart"
    /\ pc = "sleeping"
    /\ delays = <<cfg.initial>>
    /\ sleeping = Some(cfg.initial)
    /\ IsSome(duration)
    /\ Get(duration) > cfg.initial

\* C4: whatever mix of wait and async_wait produced them, the delays since
\* the last start/restart and the resulting current delay are those of the
\* all-wait run and those of the all-async_wait run of the same length (each
\* delay is the step of wait, and the step of async_wait, from the delay
\* before it); on a waiter that is not started both fail with NotStarted.
C4_WaitAsyncInterchangeable ==
    /\ (IsSome(next) /\ delays # <<>>) =>
           /\ delays[1] = cfg.initial
           /\ \A k \in 1..Len(delays) :
                  \A succ \in {IF k < Len(delays) THEN delays[k + 1] ELSE Get(next)} :
                      /\ succ = WaitNextDuration(delays[k], multiplier, cap)
                      /\ succ = AsyncWaitNextDuration(delays[k], multiplier, cap)
    /\ (cfg.waiter = "backoff" /\ ~IsSome(next) /\ pc = "idle"
            /\ lastOp \in {"wait", "async_wait"}) =>
           lastResult \in {"NotStarted", "dropped"}

\* a run that mixes both operations and in which the delay has grown
C4_Witness ==
    /\ kinds = {"wait", "async_wait"}
    /\ Len(delays) >= 3
    /\ delays[3] > delays[2]
    /\ delays[2] > delays[1]
    /\ Get(next) > delays[3]

Suspended == pc = "awaiting" /\ fut = "timer" /\ lastPoll = "Pending"

LatestWoken == regs # <<>> /\ wakes # <<>> /\ Last(wakes) = Last(regs)

\* C5: no wakeup is lost.  The task is never left suspended with the timer
\* thread finished and no wake delivered; with the timer thread scheduled
\* fairly, after a not-ready poll the handle of the latest not-ready poll is
\* eventually woken, a poll made after the wake reports ready, and the
\* suspended task eventually sees ready unless its future is dropped.
C5_NoLostWakeup ==
    /\ []((Suspended /\ tpc = "done") => wakes # <<>>)
    /\ [][(PollBody /\ wakes # <<>>) => lastPoll' = "Ready"]_vars
    /\ (lastPoll = "Pending") ~> LatestWoken
    /\ Suspended ~> (lastPoll = "Ready" \/ pc # "awaiting")

\* the task was suspended, its handle was woken and the poll after the wake
\* reported ready
C5_Witness ==
    /\ pc = "awaiting"
    /\ fut = "timer"
    /\ regs # <<>>
    /\ wakes = <<Last(regs)>>
    /\ lastPoll = "Ready"
    /\ spurious = 0

\* C6: the timer thread wakes at most one handle, exactly one once it has
\* finished after a not-ready poll, and that handle is the one of the most
\* recent not-ready poll, never one stored by an earlier poll.
C6_OneWakeThroughLatestHandle ==
    /\ Len(wakes) <= 1
    /\ wakes # <<>> => (regs # <<>> /\ wakes[1] = Last(regs))
    /\ (tpc = "done" /\ regs # <<>>) => Len(wakes) = 1

\* two not-ready polls came from different handles and the thread woke the
\* second one
C6_Witness ==
    /\ tpc = "done"
    /\ Len(regs) >= 2
    /\ regs[1] # Last(regs)
    /\ wakes = <<Last(regs)>>

\* C7: once a poll of a timer has reported ready, completed stays true and
\* the result of every later poll is ready.
C7_ReadyIsStable ==
    readyCount >= 1 => (completed /\ lastPoll = "Ready")

\* the timer was polled again after it had reported ready, after a wake
C7_Witness ==
    /\ readyCount >= 2
    /\ wakes # <<>>
    /\ lastPoll = "Ready"

\* C8 as stated: whenever the current delay is set it is at most cap.
C8_CurrentDelayAtMostCap ==
    IsSome(next) => Get(next) <= cap

\* C9: a ThrottleWaiter keeps its duration D; every wait sleeps for D, every
\* async_wait gives the timer D, and every call that returns a value returns
\* success, whatever calls were made before.
C9_FixedThrottle ==
    cfg.waiter = "throttle" =>
        /\ throttle = cfg.throttle
        /\ pc = "sleeping" => sleeping = Some(cfg.throttle)
        /\ tpc # "none" => duration = Some(cfg.throttle)
        /\ lastResult # "NotStarted"
        /\ (pc = "idle" /\ lastOp \in {"t_wait", "t_restart"}) => lastResult = "Ok"
        /\ (pc = "idle" /\ lastOp = "t_async_wait") => lastResult \in {"Ok", "dropped"}

\* after an earlier call returned success, a wait is sleeping for D again
C9_Witness ==
    /\ cfg.waiter = "throttle"
    /\ cfg.throttle > 0
    /\ lastOp = "t_wait"
    /\ lastResult = "Ok"
    /\ pc = "sleeping"
    /\ sleeping = Some(cfg.throttle)

\* C10: while wait sleeps, and from the moment async_wait has returned its
\* timer, the current delay already holds the next value, and the delay being
\* waited is the value read before the update; dropping the future changes
\* nothing of it.
C10_StoredBeforeDelay ==
    /\ []((cfg.waiter = "backoff" /\ pc = "sleeping") =>
            /\ IsSome(prev)
            /\ sleeping = prev
            /\ next = Some(WaitNextDuration(Get(prev), multiplier, cap)))
    /\ []((cfg.waiter = "backoff" /\ pc = "awaiting" /\ fut = "timer") =>
            /\ IsSome(prev)
            /\ duration = prev
            /\ next = Some(AsyncWaitNextDuration(Get(prev), multiplier, cap)))
    /\ [][Abandon => next' = next]_vars

\* an async_wait whose future was dropped without a single poll: the timer
\* got the old delay and the current delay has moved on
C10_Witness ==
    /\ cfg.waiter = "backoff"
    /\ lastOp = "async_wait"
    /\ lastResult = "dropped"
    /\ lastPoll = "none"
    /\ tpc = "sleep"
    /\ IsSome(next)
    /\ duration = Some(cfg.initial)
    /\ Get(next) > cfg.initial

\* the duration d as the whole nanosecond count its f32 conversion holds
AsF32Nanos(d) == F32AsU64(U128AsF32(d))

C12_ZeroInitialOrCapNeverDelays ==
    (cfg.waiter = "backoff" /\ (initial = 0 \/ cap = 0)) =>
        \A k \in DOMAIN delays : delays[k] = 0

\* C13: a poll result of ready implies that the timer thread has set
\* completed and exited; a poll that runs before that reports not-ready,
\* leaves completed false and leaves the handle of its own context in the
\* shared state, whatever handle was stored before.
C13_NeverReadyEarly ==
    /\ [](lastPoll = "Ready" => (completed /\ tpc = "done"))
    /\ [](readyCount >= 1 => tpc = "done")
    /\ [][(PollBody /\ tpc # "done") =>
            /\ lastPoll' = "Pending"
            /\ ~completed'
            /\ waker' = pollCx
            /\ regs' = Append(regs, Get(pollCx))]_vars

\* before the thread completed, a second not-ready poll came with another
\* handle and replaced the stored one
C13_Witness ==
    /\ tpc # "done"
    /\ ~completed
    /\ lastPoll = "Pending"
    /\ Len(regs) = 2
    /\ regs[1] # regs[2]
    /\ waker = Some(regs[2])

\* C14: one timer delivers at most one wake, and none when no poll stored a
\* handle before the thread completed; a poll that runs after completion
\* leaves no handle in the shared state and no step after completion adds a
\* wake.
C14_AtMostOneWake ==
    /\ [](Len(wakes) <= 1)
    /\ []((tpc = "done" /\ regs = <<>>) => wakes = <<>>)
    /\ [](completed => waker = None)
    /\ [][(PollBody /\ completed) =>
            (waker' = None /\ regs' = regs /\ wakes' = wakes /\ runnable' = runnable)]_vars
    /\ [][(completed /\ completed') => wakes' = wakes]_vars

\* the thread completed with a handle stored, woke it, and the timer was
\* then polled twice
C14_Witness ==
    /\ tpc = "done"
    /\ Len(regs) = 1
    /\ Len(wakes) = 1
    /\ readyCount = 2
    /\ waker = None

\* C15: with the timer thread scheduled fairly, a timer thread that has been
\* spawned reaches its exit, having set completed, whatever the task does
\* with the future; the thread holds the lock only between its lock() and
\* its exit, never while it sleeps.
C15_ThreadTerminates ==
    /\ (tpc = "sleep") ~> (tpc = "done" /\ completed /\ lock # "thread")
    /\ [](lock = "thread" <=> tpc = "locked")
    /\ [][(tpc = "sleep" /\ tpc' # "sleep") => (tpc' = "acquire" /\ lock' = lock)]_vars

\* the thread of a future that was dropped before any poll has exited
C15_Witness ==
    /\ tpc = "done"
    /\ completed
    /\ fut = "none"
    /\ lastResult = "dropped"
    /\ regs = <<>>
    /\ lock = "free"

\* C16: async_wait on a backoff that was never started returns the ready
\* failure future and creates no timer: no thread is spawned, no poll of a
\* timer reports not-ready, and the first poll of the returned future
\* yields NotStarted.
C16_AsyncWaitNotStartedIsReady ==
    /\ [][(AsyncWait /\ ~IsSome(next)) =>
            (fut' = "ready_err" /\ next' = next /\ delays' = delays
               /\ UNCHANGED timerVars)]_vars
    /\ [](fut = "ready_err" =>
            (pc = "awaiting" /\ ~IsSome(next) /\ tpc = "none" /\ lastPoll = "none"
               /\ ENABLED AwaitReadyErr))
    /\ [][AwaitReadyErr => (lastResult' = "NotStarted" /\ pc' = "idle"
                              /\ UNCHANGED timerVars)]_vars

\* the await of async_wait on a backoff that was never started has returned
\* NotStarted, and no timer thread exists
C16_Witness ==
    /\ cfg.waiter = "backoff"
    /\ lastOp = "async_wait"
    /\ lastResult = "NotStarted"
    /\ pc = "idle"
    /\ ~IsSome(next)
    /\ tpc = "none"

\* the exact product d * m of a whole d and the multiplier m > 0, cut to a
\* whole number
TruncProduct(d, m) == (d * m.n) \div m.d

\* d converts to f32 exactly and the f32 product d * m is the exact product
ExactProduct(d, m) ==
    /\ ExactF32(d)
    /\ F32Round(d * m.n, m.d) = Reduce(d * m.n, m.d)

C18_StartedIsPermanent ==
    /\ [][IsSome(next) => IsSome(next')]_vars
    /\ [][(IsSome(next) /\ lastResult' # lastResult) => lastResult' # "NotStarted"]_vars
    /\ [](IsSome(next) => fut # "ready_err")

\* after a restart of a started backoff, a wait and an async_wait have both
\* returned Ok
C18_Witness ==
    /\ IsSome(next)
    /\ resetBy = "restart"
    /\ kinds = {"wait", "async_wait"}
    /\ pc = "idle"
    /\ lastResult = "Ok"

\* C19: start on a started backoff sets the current delay to initial, which
\* is the state restart leaves, and the first delay after a start is
\* initial.
C19_StartReinitialises ==
    /\ [][(IsSome(next) /\ (Start \/ Restart)) =>
            (next' = Some(initial) /\ delays' = <<>>)]_vars
    /\ [][Start => next' = Some(initial)]_vars
    /\ []((resetBy = "start" /\ delays # <<>>) => delays[1] = initial)

\* a backoff that was in use (an earlier call returned Ok) was started
\* again and the wait after that start delays initial
C19_Witness ==
    /\ resetBy = "start"
    /\ lastOp = "wait"
    /\ pc = "sleeping"
    /\ lastResult = "Ok"
    /\ delays = <<initial>>
    /\ sleeping = Some(initial)
    /\ initial < cap
    /\ multiplier.n > multiplier.d

\* the fields of the original waiter
original == <<next, initial, multiplier, cap>>

\* C20: a clone is made with the started status, the current delay and the
\* configuration of the original at that moment; from then on a step that
\* changes the clone leaves the original's fields alone and a step that
\* changes the original leaves the clone alone.
C20_CloneCopiesThenIndependent ==
    /\ [][Clone => (/\ IsSome(clone')
                    /\ Get(clone').next = next
                    /\ IsSome(Get(clone').next) = IsSome(next)
                    /\ Get(clone').initial = initial
                    /\ Get(clone').multiplier = multiplier
                    /\ Get(clone').cap = cap
                    /\ UNCHANGED original)]_vars
    /\ [][(clone' # clone) => UNCHANGED original]_vars
    /\ [][(original' # original) => clone' = clone]_vars

\* both are started and hold different current delays: the original has
\* handed out three delays and gone on to 9ns while the clone holds 4ns
C20_Witness ==
    /\ IsSome(clone)
    /\ IsSome(next)
    /\ IsSome(Get(clone).next)
    /\ Len(delays) = 3
    /\ Get(next) = 9
    /\ Get(Get(clone).next) = 4

====
